---- MODULE Spec2Model ----
(***************************************************************************)
(* Model of the service-worker cache controller of sw.js: the install,     *)
(* activate and fetch listeners, the cache storage and network primitives  *)
(* they call, and the host's dispatch of the three lifecycle events.       *)
(*                                                                         *)
(* A URL is a sequence of tokens, a store name a pair <<stem, n>>, a       *)
(* response a record [url, status].  Every promise step of a handler is    *)
(* one action, so that handlers of different events interleave the way     *)
(* the event loop interleaves them.  The fields netCalls, netError,        *)
(* cacheOps, wrote, found, cached and prior of an event, partial and wrote *)
(* of an addAll call, and the variable delivered record what a handler has *)
(* done; no handler reads them.                                            *)
(***************************************************************************)
EXTENDS Integers, Sequences, FiniteSets, TLC

(* Bounds of the model. *)
MaxVersions == 2        \* worker versions deployed in one behaviour
MaxEvents == 1          \* fetch events in flight at the same time under Spec
MaxOverlap == 2         \* fetch events in flight at the same time under SpecOverlap
MaxScroll == 6          \* scroll offsets of the page, in steps of 25 pixels
MaxSweeps == 2          \* runs of the activate handler in a row under SpecSweep
MaxSubmits == 2         \* submit events of the contact form under SpecForm

Workers == 1..MaxVersions
Events == 1..MaxOverlap

(***************************************************************************)
(* URLs                                                                    *)
(***************************************************************************)
Origin == <<"https://", "mahesh-puri.github.io">>

\* The text the fetch listener looks for in the request URL.
SitePrefix == <<"mahesh-puri.github.io", "/", "resume/">>

\* The directory sw.js is served from: relative manifest paths resolve here.
ScopeDir == Origin \o <<"/", "resume/">>

\* const staticCacheName, one name per deployed version (w = 1 is v2.1.0).
staticCacheName(w) == <<"static-cache-v2.1.", w - 1>>

\* The name of the commented-out previous generation.
LegacyName == <<"site-static-v", 1>>

\* const assets, each path as written in the source.
assets ==
  << <<"/">>,
     <<"./", "index.html">>,
     <<"./", "assets/js/main.js">>,
     <<"./", "assets/css/styles.css">>,
     <<"./", "assets/img/perfil.jpg">>,
     <<"./", "assets/img/logo/maskable_icon_x1.png">>,
     <<"./", "assets/img/logo/maskable_icon_x3.png">>,
     <<"./", "assets/img/about.jpg">>,
     <<"./", "assets/img/projectmind.jpg">>,
     <<"https://", "fonts.googleapis.com", "/", "css2?family=Poppins">> >>

\* URL resolution of a manifest path against the worker script's location,
\* as the Request constructor does inside cache.addAll.
Resolve(path) ==
  IF path[1] = "https://" THEN path
  ELSE IF path[1] = "/" THEN Origin \o path
  ELSE ScopeDir \o Tail(path)

AssetURLs == { Resolve(assets[i]) : i \in 1..Len(assets) }

\* String.prototype.includes on token sequences.
Includes(s, t) ==
  \E i \in 1..(Len(s) - Len(t) + 1) : SubSeq(s, i, i + Len(t) - 1) = t

\* A listener that tests the scheme of the URL instead of the site prefix.
MutIsHttps(url) == Includes(url, <<"https://">>)

\* A listener that takes the cache path for every request, as the
\* commented-out listener did.
MutIsSitePrefixed(url) == TRUE

\* evt.request.url.includes("mahesh-puri.github.io/resume/")
IsSitePrefixed(url) == Includes(url, SitePrefix)

SameOrigin(url) == SubSeq(url, 1, Len(Origin)) = Origin /\ url[Len(Origin) + 1] = "/"

\* The requests the page makes in the model.
RootURL == Resolve(assets[1])
IndexURL == Resolve(assets[2])
FontURL == Resolve(assets[Len(assets)])
ExtraURL == ScopeDir \o <<"assets/img/extra.png">>
Requests == { RootURL, IndexURL, FontURL, ExtraURL }

(***************************************************************************)
(* Responses and stores                                                    *)
(***************************************************************************)
Statuses == {200, 404}

Response(url, status) == [url |-> url, status |-> status]

NoResponse == [url |-> <<>>, status |-> 0]

\* Response.ok
Ok(resp) == resp.status = 200

NoHandle == <<"none", 0>>
Orphaned == <<"orphaned", 0>>

EmptyStore == [u \in {} |-> NoResponse]

\* A put that keeps the entry the store already holds for the URL.
MutStoreKeepFirst(store, url, resp) ==
  IF url \in DOMAIN store THEN store
  ELSE [u \in (DOMAIN store) \cup {url} |-> IF u = url THEN resp ELSE store[u]]

\* A put that drops the other entries of the store.
MutStoreReplace(store, url, resp) == [u \in {url} |-> resp]

\* cache.put(request, response) on one store.
StorePut(store, url, resp) ==
  [u \in (DOMAIN store) \cup {url} |-> IF u = url THEN resp ELSE store[u]]

VARIABLES
  caches,          \* cache storage: store name -> (URL -> stored response)
  deployed,        \* number of worker versions deployed so far
  swState,         \* per worker: parsed, installing, installed, activating,
                   \*   activated, redundant
  installSignal,   \* per worker: the promise given to install's waitUntil
  addAll,          \* per worker: the cache.addAll call of the install handler
  activateSignal,  \* per worker: the promise given to activate's waitUntil
  activatePc,      \* per worker: position of the activate handler
  deleting,        \* per worker: store names whose caches.delete is pending
  deleteFailed,    \* per worker: store names whose caches.delete was rejected
  sweeps,          \* per worker: runs of the activate handler that have resolved
  events,          \* per fetch event slot: the handler's state
  delivered,       \* URLs for which, in the current generation, an event
                   \*   that missed was answered with an ok network response
  page             \* the page that runs assets/js/main.js

vars == <<caches, deployed, swState, installSignal, addAll, activateSignal,
          activatePc, deleting, deleteFailed, sweeps, events, delivered, page>>

\* The variables of the service worker.
workerVars ==
  <<caches, deployed, swState, installSignal, addAll, activateSignal,
    activatePc, deleting, deleteFailed, sweeps, events, delivered>>


\* The store behind a handle; a handle whose store was deleted names nothing.
StoreOf(h) == IF h \in DOMAIN caches THEN caches[h] ELSE EmptyStore

\* An open that fills the store it creates with the manifest.
MutOpenedPrecached(cs, name) ==
  IF name \in DOMAIN cs THEN cs
  ELSE [n \in (DOMAIN cs) \cup {name} |->
          IF n = name THEN [u \in AssetURLs |-> Response(u, 200)] ELSE cs[n]]

\* An open that starts the storage afresh: only the named store is left.
MutOpenedAlone(cs, name) ==
  [n \in {name} |-> IF name \in DOMAIN cs THEN cs[name] ELSE EmptyStore]

\* caches.open(name): the store map after open-or-create.
Opened(cs, name) ==
  IF name \in DOMAIN cs THEN cs
  ELSE [n \in (DOMAIN cs) \cup {name} |-> IF n = name THEN EmptyStore ELSE cs[n]]

\* caches.delete(name)
Deleted(cs, name) == [n \in (DOMAIN cs) \ {name} |-> cs[n]]

\* The entries of new that old does not hold.
Changed(old, new) ==
  { u \in DOMAIN new : u \notin DOMAIN old \/ old[u] # new[u] }

IdleEvent ==
  [pc |-> "idle", url |-> <<>>, worker |-> 0, handle |-> NoHandle,
   netCalls |-> 0, netError |-> FALSE, cacheOps |-> 0, wrote |-> FALSE,
   found |-> NoResponse, result |-> "none", response |-> NoResponse,
   put |-> "none", cached |-> FALSE, prior |-> FALSE, responded |-> 0]

NoAddAll ==
  [st |-> "none", handle |-> NoHandle, requested |-> <<>>, partial |-> FALSE,
   wrote |-> {}]

\* The cache.addAll call of a worker the host has terminated.
Terminated ==
  [st |-> "terminated", handle |-> NoHandle, requested |-> <<>>,
   partial |-> FALSE, wrote |-> {}]

LegacyStore == [u \in {IndexURL} |-> Response(IndexURL, 200)]

\* A page before its script has run, in a browser that has or has not
\* navigator.serviceWorker, with the section elements sections and the
\* navigation links links (their href attributes).
\* form is the contact form (its controls in form order); handled, prevented
\* and submitted count the runs of contact, its preventDefault calls and its
\* form.submit() calls, sent is the body field as the last submission carried
\* it; click is the last click and the state of the menu before it, scrolled
\* tells that the scroll listener has run.
Page(supported, sections, links, form) ==
  [pc |-> "start", supported |-> supported, sections |-> sections,
   links |-> links, regCalls |-> 0, regPath |-> "", reg |-> "none",
   log |-> <<>>, show |-> FALSE, scrollY |-> 0, active |-> {},
   form |-> form, handled |-> 0, prevented |-> 0, submitted |-> 0,
   sent |-> <<>>, click |-> [kind |-> "none", before |-> FALSE],
   scrolled |-> FALSE]

\* <section id=...> with its offsetTop and offsetHeight.
Section(id, top, height) == [id |-> id, offsetTop |-> top, offsetHeight |-> height]

\* Documents the script runs in: sections one below the other, and sections
\* that overlap.
Layouts ==
  { <<Section("home", 0, 100), Section("about", 100, 50)>>,
    <<Section("home", 0, 100), Section("about", 50, 100)>> }

\* The href attributes of the links of the navigation menu.
NavLinks == << <<"#", "home">>, <<"#", "about">> >>

\* A control of the contact form: its name, its type and its value (a string,
\* as the sequence of its pieces).
Control(name, type) == [name |-> name, type |-> type, value |-> <<>>]

\* Contact forms the script runs on, each with the hidden field body that
\* contact fills in.
Forms ==
  { << Control("name", "text"), Control("email", "email"),
       Control("message", "textarea"), Control("body", "hidden"),
       Control("send", "submit") >>,
    << Control("body", "hidden"), Control("subject", "text"),
       Control("name", "text"), Control("send", "submit") >> }

\* No worker is deployed; the storage of the origin is empty or holds the
\* store of an earlier release of the site.
InitWorker ==
  /\ caches \in { [n \in {} |-> EmptyStore],
                  [n \in {LegacyName} |-> LegacyStore] }
  /\ deployed = 0
  /\ swState = [w \in Workers |-> "parsed"]
  /\ installSignal = [w \in Workers |-> "none"]
  /\ addAll = [w \in Workers |-> NoAddAll]
  /\ activateSignal = [w \in Workers |-> "none"]
  /\ activatePc = [w \in Workers |-> "none"]
  /\ deleting = [w \in Workers |-> {}]
  /\ deleteFailed = [w \in Workers |-> {}]
  /\ sweeps = [w \in Workers |-> 0]
  /\ events = [e \in Events |-> IdleEvent]
  /\ delivered = {}

Init ==
  /\ InitWorker
  /\ page = Page(TRUE, CHOOSE l \in Layouts : TRUE, NavLinks,
                 CHOOSE f \in Forms : TRUE)

(***************************************************************************)
(* Install                                                                 *)
(***************************************************************************)
\* The host deploys version w and dispatches its install event; the listener
\* calls caches.open and hands the chained promise to evt.waitUntil.  A new
\* version is deployed once the previous one has taken over.
InstallEvent(w) ==
  /\ w = deployed + 1
  /\ w <= MaxVersions
  /\ w > 1 => swState[w - 1] = "activated"
  /\ deployed' = w
  /\ swState' = [swState EXCEPT ![w] = "installing"]
  /\ installSignal' = [installSignal EXCEPT ![w] = "pending"]
  /\ UNCHANGED <<page, sweeps, deleteFailed, caches, addAll, activateSignal, activatePc, deleting, events,
                 delivered>>

\* The requests one cache.addAll(paths) call makes: one per path, in order.
AddAllRequests(paths) == [i \in 1..Len(paths) |-> Resolve(paths[i])]

\* caches.open resolves; the callback logs, calls cache.addAll(assets) and
\* returns nothing, so the promise given to waitUntil resolves without waiting
\* for that call; the host sees it resolved and the worker is installed.
InstallOpened(w) ==
  /\ swState[w] = "installing"
  /\ installSignal[w] = "pending"
  /\ caches' = Opened(caches, staticCacheName(w))
  /\ addAll' = [addAll EXCEPT ![w] =
        [st |-> "pending", handle |-> staticCacheName(w),
         requested |-> AddAllRequests(assets), partial |-> FALSE, wrote |-> {}]]
  /\ installSignal' = [installSignal EXCEPT ![w] = "resolved"]
  /\ swState' = [swState EXCEPT ![w] = "installed"]
  /\ UNCHANGED <<page, sweeps, deleteFailed, deployed, activateSignal, activatePc, deleting, events,
                 delivered>>

\* The store after the first k responses of an addAll call have been written.
RECURSIVE PutAssets(_, _)
PutAssets(store, k) ==
  IF k = 0 THEN store
  ELSE StorePut(PutAssets(store, k - 1), Resolve(assets[k]),
                Response(Resolve(assets[k]), 200))

\* A bulk add that writes each response as it arrives, like one cache.add per
\* path.
MutAddAllAborted(store, k) == PutAssets(store, k)

\* cache.addAll when the request after the first k fails: the responses it
\* had received are dropped and nothing is written.
AddAllAborted(store, k) == store

\* cache.addAll when every response arrived and was ok: all are written.
AddAllStored(store) == PutAssets(store, Len(assets))

\* cache.addAll fetches the manifest; the first k requests are answered ok and
\* the next one is not (a network error, or a response that is not ok).  The
\* call rejects, which nobody observes.
AddAllRejected(w, k) ==
  /\ addAll[w].st = "pending"
  /\ k < Len(assets)
  /\ LET h == addAll[w].handle
         new == AddAllAborted(StoreOf(h), k)
     IN /\ caches' = IF h \in DOMAIN caches
                     THEN [caches EXCEPT ![h] = new]
                     ELSE caches
        /\ addAll' = [addAll EXCEPT ![w].st = "rejected", ![w].partial = (k > 0),
                        ![w].wrote = Changed(StoreOf(h), new)]
  /\ UNCHANGED <<page, sweeps, deleteFailed, deployed, swState, installSignal, activateSignal, activatePc,
                 deleting, events, delivered>>

\* cache.addAll fetches the manifest and every request is answered ok.
AddAllCommit(w) ==
  /\ addAll[w].st = "pending"
  /\ LET h == addAll[w].handle
         new == AddAllStored(StoreOf(h))
     IN /\ caches' = IF h \in DOMAIN caches
                     THEN [caches EXCEPT ![h] = new]
                     ELSE caches
        /\ addAll' = [addAll EXCEPT ![w].st = "committed",
                        ![w].wrote = Changed(StoreOf(h), new)]
  /\ UNCHANGED <<page, sweeps, deleteFailed, deployed, swState, installSignal, activateSignal, activatePc,
                 deleting, events, delivered>>

(***************************************************************************)
(* Activate                                                                *)
(***************************************************************************)
ActiveWorker ==
  IF \E w \in Workers : swState[w] \in {"activating", "activated"}
  THEN CHOOSE w \in Workers : swState[w] \in {"activating", "activated"}
  ELSE 0

\* A listener whose events the host does not wait for: the worker can be
\* replaced while a respondWith promise is pending.
MutNotResponding(w) == FALSE

\* respondWith of a fetch event handled by worker w has not settled.
Responding(w) ==
  \E e \in Events : events[e].worker = w /\ events[e].pc \in {"open", "match", "net"}

\* The host makes the waiting worker w the active one, once the active worker
\* has no event pending, and dispatches its activate event; the listener calls
\* caches.keys and hands the chained promise to evt.waitUntil.  The worker it
\* replaces is terminated: its cache.addAll call, if still pending, is abandoned
\* and the events it has answered are forgotten.
ActivateEvent(w) ==
  /\ swState[w] = "installed"
  /\ \A v \in Workers : swState[v] # "installing"
  /\ ActiveWorker # 0 => swState[ActiveWorker] = "activated" /\ ~Responding(ActiveWorker)
  /\ swState' = [v \in Workers |->
        IF v = w THEN "activating"
        ELSE IF v = ActiveWorker THEN "redundant"
        ELSE swState[v]]
  /\ activateSignal' = [activateSignal EXCEPT ![w] = "pending"]
  /\ activatePc' = [activatePc EXCEPT ![w] = "keys"]
  /\ addAll' = [v \in Workers |->
        IF v = ActiveWorker THEN Terminated ELSE addAll[v]]
  /\ events' = [e \in Events |->
        IF events[e].pc = "done" /\ events[e].put # "pending" THEN IdleEvent
        ELSE events[e]]
  /\ delivered' = {}
  /\ UNCHANGED <<page, sweeps, deleteFailed, caches, deployed, installSignal, deleting>>

\* A sweep whose filter lets nothing through: no store is deleted.
MutNoSweep(keys, w) == {}

\* A sweep that deletes one stale store per run.
MutStaleOne(keys, w) ==
  IF \A key \in keys : key = staticCacheName(w) THEN {}
  ELSE {CHOOSE key \in keys : key # staticCacheName(w)}

\* A sweep whose filter is inverted: key === staticCacheName.
MutStaleInverted(keys, w) == { key \in keys : key = staticCacheName(w) }

\* A sweep without the filter: every store is deleted.
MutStale(keys, w) == keys

\* keys.filter((key) => key !== staticCacheName)
Stale(keys, w) == { key \in keys : key # staticCacheName(w) }

\* caches.keys resolves; the callback calls caches.delete for every stale key
\* and returns Promise.all of the deletions.
ActivateKeys(w) ==
  /\ activatePc[w] = "keys"
  /\ deleting' = [deleting EXCEPT ![w] = Stale(DOMAIN caches, w)]
  /\ activatePc' = [activatePc EXCEPT ![w] = "deleting"]
  /\ UNCHANGED <<page, sweeps, deleteFailed, caches, deployed, swState, installSignal, addAll, activateSignal,
                 events, delivered>>

\* A handle on a store that has just been deleted no longer names a store.
Detach(h, key) == IF h = key THEN Orphaned ELSE h

\* One caches.delete(key) of the activate handler completes.
CacheDelete(w, key) ==
  /\ key \in deleting[w]
  /\ caches' = Deleted(caches, key)
  /\ deleting' = [deleting EXCEPT ![w] = @ \ {key}]
  /\ addAll' = [v \in Workers |-> [addAll[v] EXCEPT !.handle = Detach(@, key)]]
  /\ events' = [e \in Events |-> [events[e] EXCEPT !.handle = Detach(@, key)]]
  /\ UNCHANGED <<page, sweeps, deleteFailed, deployed, swState, installSignal, activateSignal, activatePc,
                 delivered>>

\* A listener that hands nothing to evt.waitUntil: the host waits for no
\* deletion.
MutAllDeleted(pending) == TRUE

\* Promise.all(deletions), the promise handed to evt.waitUntil, resolves when
\* every deletion has.
AllDeleted(pending) == pending = {}

\* Promise.all resolves when every deletion has; the host sees the waitUntil
\* promise resolved and the worker is activated.
ActivateResolved(w) ==
  /\ activatePc[w] = "deleting"
  /\ AllDeleted(deleting[w])
  /\ activatePc' = [activatePc EXCEPT ![w] = "done"]
  /\ activateSignal' = [activateSignal EXCEPT ![w] = "resolved"]
  /\ swState' = [swState EXCEPT ![w] = "activated"]
  /\ sweeps' = [sweeps EXCEPT ![w] = @ + 1]
  /\ UNCHANGED <<page, deleteFailed, caches, deployed, installSignal, addAll, deleting, events,
                 delivered>>


(***************************************************************************)
(* Fetch                                                                   *)
(***************************************************************************)
\* A listener without the else branch: for a URL without the site prefix it
\* returns without a call of respondWith and the host fetches the request.
MutListenerNoElse(ev, url) ==
  IF IsSitePrefixed(url)
  THEN [ev EXCEPT !.pc = "open", !.cacheOps = 1, !.responded = @ + 1]
  ELSE [ev EXCEPT !.pc = "net"]

\* The body of the fetch listener, run within the dispatch: one call of
\* evt.respondWith on either branch of the test of the URL.
Listener(ev, url) ==
  IF IsSitePrefixed(url)
  THEN [ev EXCEPT !.pc = "open", !.cacheOps = 1, !.responded = @ + 1]
  ELSE [ev EXCEPT !.pc = "net", !.netCalls = 1, !.responded = @ + 1]

\* The host dispatches a fetch event for url to the activated worker.  The
\* listener calls respondWith once: with the cache chain, started by
\* caches.open, when the URL contains the site prefix, and with fetch(request)
\* otherwise.
FetchEvent(e, url) ==
  /\ events[e].pc = "idle"
  /\ \A f \in Events : f < e => events[f].pc # "idle"
  /\ ActiveWorker # 0
  /\ swState[ActiveWorker] = "activated"
  /\ events' = [events EXCEPT ![e] =
        LET ev == [IdleEvent EXCEPT !.url = url, !.worker = ActiveWorker,
                     !.cached = (url \in DOMAIN StoreOf(staticCacheName(ActiveWorker))),
                     !.prior = (url \in delivered)]
        IN Listener(ev, url)]
  /\ UNCHANGED <<page, sweeps, deleteFailed, caches, deployed, swState, installSignal, addAll, activateSignal,
                 activatePc, deleting, delivered>>

\* A listener whose cache chain waits until no other fetch is in flight.
MutOpenSerial(e) ==
  /\ events[e].pc = "open"
  /\ \A f \in Events \ {e} : events[f].pc # "net"
  /\ LET name == staticCacheName(events[e].worker)
     IN /\ caches' = Opened(caches, name)
        /\ events' = [events EXCEPT ![e].pc = "match", ![e].handle = name,
                        ![e].cacheOps = @ + 1,
                        ![e].wrote = (name \notin DOMAIN caches)]
  /\ UNCHANGED <<page, sweeps, deleteFailed, deployed, swState, installSignal, addAll, activateSignal,
                 activatePc, deleting, delivered>>

\* caches.open(staticCacheName) resolves; the callback calls cache.match.
OpenResolved(e) ==
  /\ events[e].pc = "open"
  /\ LET name == staticCacheName(events[e].worker)
     IN /\ caches' = Opened(caches, name)
        /\ events' = [events EXCEPT ![e].pc = "match", ![e].handle = name,
                        ![e].cacheOps = @ + 1,
                        ![e].wrote = (name \notin DOMAIN caches)]
  /\ UNCHANGED <<page, sweeps, deleteFailed, deployed, swState, installSignal, addAll, activateSignal,
                 activatePc, deleting, delivered>>

\* A lookup that ignores the request: any stored response matches.
MutMatchAny(store, url) ==
  IF DOMAIN store # {} THEN store[CHOOSE u \in DOMAIN store : u # url \/ DOMAIN store = {url}]
  ELSE NoResponse

\* What cache.match(request) resolves to: the stored response or undefined.
Match(store, url) == IF url \in DOMAIN store THEN store[url] ELSE NoResponse

\* A network-first listener: the stored response is ignored.
MutUseCached(cacheResponse) == FALSE

\* cacheResponse || fetch(...): a stored response is truthy.
UseCached(cacheResponse) == cacheResponse # NoResponse

\* A listener that writes the stored response back to the store on a hit.
MutMatchRewrite(e) ==
  /\ events[e].pc = "match"
  /\ LET cacheResponse == Match(StoreOf(events[e].handle), events[e].url)
     IN events' = [events EXCEPT ![e] =
          IF UseCached(cacheResponse)
          THEN [@ EXCEPT !.pc = "done", !.found = cacheResponse, !.result = "cache",
                         !.response = cacheResponse, !.put = "pending",
                         !.cacheOps = @ + 1]
          ELSE [@ EXCEPT !.pc = "net", !.found = cacheResponse, !.netCalls = @ + 1]]
  /\ UNCHANGED <<page, sweeps, deleteFailed, caches, deployed, swState, installSignal,
                 addAll, activateSignal, activatePc, deleting, delivered>>

\* cache.match resolves; the callback answers with the stored response, or
\* calls fetch(request) when there is none.
MatchResolved(e) ==
  /\ events[e].pc = "match"
  /\ LET cacheResponse == Match(StoreOf(events[e].handle), events[e].url)
     IN events' = [events EXCEPT ![e] =
          IF UseCached(cacheResponse)
          THEN [@ EXCEPT !.pc = "done", !.found = cacheResponse, !.result = "cache",
                         !.response = cacheResponse]
          ELSE [@ EXCEPT !.pc = "net", !.found = cacheResponse, !.netCalls = @ + 1]]
  /\ UNCHANGED <<page, sweeps, deleteFailed, caches, deployed, swState, installSignal, addAll, activateSignal,
                 activatePc, deleting, delivered>>

\* The network answers the fetch of event e with some status.  On the cache
\* path the callback calls cache.put with a clone and returns the response
\* without waiting for the put; on the other path the response is the answer.
NetResolved(e, status) ==
  /\ events[e].pc = "net"
  /\ LET resp == Response(events[e].url, status)
         cachePath == events[e].handle # NoHandle
     IN events' = [events EXCEPT ![e] =
             IF cachePath
             THEN [@ EXCEPT !.pc = "done", !.result = "network", !.response = resp,
                            !.put = "pending", !.cacheOps = @ + 1]
             ELSE [@ EXCEPT !.pc = "done", !.result = "network", !.response = resp]]
  /\ delivered' = IF events[e].handle # NoHandle /\ Ok(Response(events[e].url, status))
                  THEN delivered \cup {events[e].url}
                  ELSE delivered
  /\ UNCHANGED <<page, sweeps, deleteFailed, caches, deployed, swState, installSignal, addAll, activateSignal,
                 activatePc, deleting>>

\* A listener that catches the failure and answers with a fallback response.
MutRejected(ev) ==
  [ev EXCEPT !.pc = "done", !.result = "cache", !.response = Response(ev.url, 200)]

\* A listener that calls fetch again when the fetch has failed.
MutRetry(ev) == [ev EXCEPT !.pc = "net", !.netCalls = @ + 1]

\* A rejected fetch promise rejects the promise given to respondWith: no
\* handler catches it.
Rejected(ev) == [ev EXCEPT !.pc = "done", !.result = "failed"]

\* The network fetch of event e fails.
NetFailed(e) ==
  /\ events[e].pc = "net"
  /\ events' = [events EXCEPT ![e] = Rejected([@ EXCEPT !.netError = TRUE])]
  /\ UNCHANGED <<page, sweeps, deleteFailed, caches, deployed, swState, installSignal, addAll, activateSignal,
                 activatePc, deleting, delivered>>

\* The cache.put of event e writes the response under the request URL; the
\* handler of e then has nothing left to do.
PutDone(e) ==
  /\ events[e].put = "pending"
  /\ LET h == events[e].handle
     IN caches' = IF h \in DOMAIN caches
                  THEN [caches EXCEPT ![h] = StorePut(@, events[e].url, events[e].response)]
                  ELSE caches
  /\ events' = [events EXCEPT ![e] = IdleEvent]
  /\ UNCHANGED <<page, sweeps, deleteFailed, deployed, swState, installSignal, addAll, activateSignal,
                 activatePc, deleting, delivered>>

\* The page has its answer and the handler has nothing pending: the slot is
\* free for the next event.
Retire(e) ==
  /\ events[e].pc = "done"
  /\ events[e].put # "pending"
  /\ events' = [events EXCEPT ![e] = IdleEvent]
  /\ UNCHANGED <<page, sweeps, deleteFailed, caches, deployed, swState, installSignal, addAll, activateSignal,
                 activatePc, deleting, delivered>>

\* The steps of the install and activate handlers and of the primitives they
\* started, and every step of a dispatched fetch event.
Handlers ==
  \/ \E w \in Workers : InstallEvent(w)
  \/ \E w \in Workers : InstallOpened(w)
  \/ \E w \in Workers : \E k \in 0..Len(assets) : AddAllRejected(w, k)
  \/ \E w \in Workers : AddAllCommit(w)
  \/ \E w \in Workers : ActivateEvent(w)
  \/ \E w \in Workers : ActivateKeys(w)
  \/ \E w \in Workers : \E key \in DOMAIN caches : CacheDelete(w, key)
  \/ \E w \in Workers : ActivateResolved(w)
  \/ \E e \in Events : OpenResolved(e)
  \/ \E e \in Events : MatchResolved(e)
  \/ \E e \in Events : \E status \in Statuses : NetResolved(e, status)
  \/ \E e \in Events : NetFailed(e)
  \/ \E e \in Events : PutDone(e)
  \/ \E e \in Events : Retire(e)

\* At most MaxEvents fetch events are in flight at a time.
Next ==
  \/ Handlers
  \/ \E e \in 1..MaxEvents : \E url \in Requests : FetchEvent(e, url)

Spec == Init /\ [][Next]_vars

\* At most MaxOverlap fetch events are in flight at a time.
NextOverlap ==
  \/ Handlers
  \/ \E e \in Events : \E url \in Requests : FetchEvent(e, url)

SpecOverlap == Init /\ [][NextOverlap]_vars

(***************************************************************************)
(* Requests to other origins                                               *)
(***************************************************************************)
\* A request of the page to another origin whose query string holds the text
\* the fetch listener looks for.
ForeignURL ==
  <<"https://", "other.example", "/", "?from=" >> \o SitePrefix

\* The worker where the page also requests ForeignURL.
NextForeign ==
  \/ Handlers
  \/ \E e \in 1..MaxEvents : \E url \in Requests \cup {ForeignURL} : FetchEvent(e, url)

SpecForeign == Init /\ [][NextForeign]_vars

(***************************************************************************)
(* The activate handler run again                                          *)
(***************************************************************************)
\* The store names and the stores the storage can hold when a sweep starts.
SweepNames == {LegacyName} \cup { staticCacheName(v) : v \in Workers }
SweepStores == {EmptyStore, LegacyStore, AddAllStored(EmptyStore)}
SweepInputs == UNION { [S -> SweepStores] : S \in SUBSET SweepNames }

\* The activate event of some version w has just been dispatched, with any
\* set of stores in the storage.
InitSweep ==
  /\ caches \in SweepInputs
  /\ \E w \in Workers :
       /\ deployed = w
       /\ swState = [v \in Workers |->
             IF v = w THEN "activating" ELSE IF v < w THEN "redundant" ELSE "parsed"]
       /\ installSignal = [v \in Workers |-> IF v <= w THEN "resolved" ELSE "none"]
       /\ addAll = [v \in Workers |->
             IF v = w
             THEN [st |-> "committed", handle |-> staticCacheName(w),
                   requested |-> AddAllRequests(assets), partial |-> FALSE,
                   wrote |-> {}]
             ELSE IF v < w THEN Terminated ELSE NoAddAll]
       /\ activateSignal = [v \in Workers |->
             IF v = w THEN "pending" ELSE IF v < w THEN "resolved" ELSE "none"]
       /\ activatePc = [v \in Workers |->
             IF v = w THEN "keys" ELSE IF v < w THEN "done" ELSE "none"]
       /\ sweeps = [v \in Workers |-> 0]
  /\ deleting = [v \in Workers |-> {}]
  /\ deleteFailed = [v \in Workers |-> {}]
  /\ events = [e \in Events |-> IdleEvent]
  /\ delivered = {}
  /\ page = Page(TRUE, CHOOSE l \in Layouts : TRUE, NavLinks,
                 CHOOSE f \in Forms : TRUE)

\* The activate listener of the activated worker w is run once more, straight
\* after its previous run.
ActivateAgain(w) ==
  /\ activatePc[w] = "done"
  /\ sweeps[w] >= 1
  /\ sweeps[w] < MaxSweeps
  /\ activatePc' = [activatePc EXCEPT ![w] = "keys"]
  /\ activateSignal' = [activateSignal EXCEPT ![w] = "pending"]
  /\ swState' = [swState EXCEPT ![w] = "activating"]
  /\ UNCHANGED <<page, sweeps, deleteFailed, caches, deployed, installSignal,
                 addAll, deleting, events, delivered>>

\* Nothing runs but the activate handler.
NextSweep ==
  \/ \E w \in Workers : ActivateKeys(w)
  \/ \E w \in Workers : \E key \in DOMAIN caches : CacheDelete(w, key)
  \/ \E w \in Workers : ActivateResolved(w)
  \/ \E w \in Workers : ActivateAgain(w)

SpecSweep == InitSweep /\ [][NextSweep]_vars

(***************************************************************************)
(* Storage cleared from outside                                            *)
(***************************************************************************)
\* The user or the browser removes the store key: the handles the worker
\* holds on it no longer name a store.
StorageCleared(key) ==
  /\ key \in DOMAIN caches
  /\ caches' = Deleted(caches, key)
  /\ addAll' = [v \in Workers |-> [addAll[v] EXCEPT !.handle = Detach(@, key)]]
  /\ events' = [e \in Events |-> [events[e] EXCEPT !.handle = Detach(@, key)]]
  /\ UNCHANGED <<page, sweeps, deleteFailed, deployed, swState, installSignal,
                 activateSignal, activatePc, deleting, delivered>>

\* The worker where stores can be removed from outside.
NextCleared ==
  \/ Next
  \/ \E key \in DOMAIN caches : StorageCleared(key)

SpecCleared == Init /\ [][NextCleared]_vars

(***************************************************************************)
(* Storage faults                                                          *)
(***************************************************************************)
\* A sweep that waits for every deletion to settle and ignores its outcome.
MutSweepSignal(failed) == "resolved"

\* Promise.all(deletions) is rejected as soon as one deletion is, and no
\* handler is chained on it: the promise given to evt.waitUntil is rejected.
SweepSignal(failed) == IF failed = {} THEN "resolved" ELSE "rejected"

\* The storage rejects one caches.delete(key) of the activate handler: the
\* store stays.  The first rejection settles the promise given to
\* evt.waitUntil, and the host activates the worker whatever the outcome;
\* the deletions already started go on.
CacheDeleteFailed(w, key) ==
  /\ key \in deleting[w]
  /\ deleting' = [deleting EXCEPT ![w] = @ \ {key}]
  /\ deleteFailed' = [deleteFailed EXCEPT ![w] = @ \cup {key}]
  /\ IF activatePc[w] = "deleting"
     THEN /\ activatePc' = [activatePc EXCEPT ![w] = "done"]
          /\ activateSignal' =
               [activateSignal EXCEPT ![w] = SweepSignal(deleteFailed'[w])]
          /\ swState' = [swState EXCEPT ![w] = "activated"]
     ELSE UNCHANGED <<activatePc, activateSignal, swState>>
  /\ UNCHANGED <<page, sweeps, caches, deployed, installSignal, addAll, events, delivered>>

\* A listener that answers only once the write is done: a rejected write
\* rejects the promise given to respondWith.
MutPutRejected(ev) ==
  [ev EXCEPT !.put = "failed", !.result = "failed", !.response = NoResponse]

\* The promise of cache.put is rejected; the listener holds no reference to
\* it, so the event keeps the answer it was given.
PutRejected(ev) == [ev EXCEPT !.put = "failed"]

\* The storage rejects the cache.put of event e: nothing is written.
PutFailed(e) ==
  /\ events[e].put = "pending"
  /\ events' = [events EXCEPT ![e] = PutRejected(@)]
  /\ UNCHANGED <<page, sweeps, deleteFailed, caches, deployed, swState, installSignal,
                 addAll, activateSignal, activatePc, deleting, delivered>>

\* The worker where the storage may reject a deletion or a write.
NextFaults ==
  \/ Next
  \/ \E w \in Workers : \E key \in DOMAIN caches : CacheDeleteFailed(w, key)
  \/ \E e \in Events : PutFailed(e)

SpecFaults == Init /\ [][NextFaults]_vars

(***************************************************************************)
(* The page script, assets/js/main.js                                      *)
(***************************************************************************)
\* register("./../../sw.js")
ScriptPath == "./../../sw.js"

\* const sectionTop = current.offsetTop - 50
HeaderOffset == 50

\* The offsets the window can be scrolled to.
ScrollYs == { k * (HeaderOffset \div 2) : k \in 0..MaxScroll }

\* A script that registers without looking for navigator.serviceWorker.
MutRegisterAlways(supported) == TRUE

\* if ("serviceWorker" in navigator)
ShouldRegister(supported) == supported

\* Lines 1-6 run: where the browser has navigator.serviceWorker the script
\* calls register once, with the fixed path, and chains then and catch on the
\* promise; reading register of an undefined navigator.serviceWorker would
\* throw and end the script.
PageRegister ==
  /\ page.pc = "start"
  /\ page' =
       IF ShouldRegister(page.supported)
       THEN IF page.supported
            THEN [page EXCEPT !.pc = "script", !.regCalls = @ + 1,
                              !.regPath = ScriptPath, !.reg = "pending"]
            ELSE [page EXCEPT !.pc = "aborted"]
       ELSE [page EXCEPT !.pc = "script"]
  /\ UNCHANGED workerVars

\* The rest of the script runs to its end: the click, scroll and submit
\* listeners are attached.
PageScript ==
  /\ page.pc = "script"
  /\ page' = [page EXCEPT !.pc = "ready"]
  /\ UNCHANGED workerVars

\* The registration promise settles, after the script has run to its end:
\* the then callback or the catch callback logs one line.
RegistrationSettled(ok) ==
  /\ page.pc = "ready"
  /\ page.reg = "pending"
  /\ page' = IF ok
             THEN [page EXCEPT !.reg = "fulfilled",
                               !.log = Append(@, "service worker registered")]
             ELSE [page EXCEPT !.reg = "rejected",
                               !.log = Append(@, "service worker not registered")]
  /\ UNCHANGED workerVars

\* A click on nav-toggle: navMenu.classList.toggle("show")
ToggleClick ==
  /\ page.pc = "ready"
  /\ page' = [page EXCEPT !.show = ~@,
                          !.click = [kind |-> "toggle", before |-> page.show]]
  /\ UNCHANGED workerVars

\* A click on nav-close: navMenu.classList.remove("show")
CloseClick ==
  /\ page.pc = "ready"
  /\ page' = [page EXCEPT !.show = FALSE,
                          !.click = [kind |-> "close", before |-> page.show]]
  /\ UNCHANGED workerVars

\* A linkAction that toggles the menu as the listener of nav-toggle does.
MutLinkClick(n) ==
  /\ page.pc = "ready"
  /\ page' = [page EXCEPT !.show = ~@,
                          !.click = [kind |-> "link", before |-> page.show]]
  /\ UNCHANGED workerVars

\* A click on the navigation link n: linkAction removes show.
LinkClick(n) ==
  /\ page.pc = "ready"
  /\ page' = [page EXCEPT !.show = FALSE,
                          !.click = [kind |-> "link", before |-> page.show]]
  /\ UNCHANGED workerVars

\* document.querySelector(".nav__menu a[href*=" + id + "]"): the first link
\* whose href contains id, 0 for null.
FindLink(links, id) ==
  IF \E i \in DOMAIN links : Includes(links[i], <<id>>)
  THEN CHOOSE i \in DOMAIN links :
         /\ Includes(links[i], <<id>>)
         /\ \A j \in DOMAIN links : Includes(links[j], <<id>>) => i <= j
  ELSE 0

\* A test of line 45 that takes the upper limit out and the lower limit in.
MutInView(scrollY, sectionTop, sectionHeight) ==
  scrollY >= sectionTop /\ scrollY < sectionTop + sectionHeight

\* The test of line 45.
InView(scrollY, sectionTop, sectionHeight) ==
  scrollY > sectionTop /\ scrollY <= sectionTop + sectionHeight

\* scrollActive from section k on: the link of each section gets or loses the
\* class active; a section without a link ends the loop with a TypeError.
RECURSIVE ScrollActive(_, _, _, _, _)
ScrollActive(sections, links, active, scrollY, k) ==
  IF k > Len(sections) THEN active
  ELSE LET current == sections[k]
           sectionHeight == current.offsetHeight
           sectionTop == current.offsetTop - HeaderOffset
           link == FindLink(links, current.id)
       IN IF link = 0 THEN active
          ELSE ScrollActive(sections, links,
                 IF InView(scrollY, sectionTop, sectionHeight)
                 THEN active \cup {link}
                 ELSE active \ {link},
                 scrollY, k + 1)

\* The window is scrolled to offset y and the scroll listener runs.
Scroll(y) ==
  /\ page.pc = "ready"
  /\ page' = [page EXCEPT !.scrollY = y, !.scrolled = TRUE,
                          !.active = ScrollActive(page.sections, page.links, @, y, 1)]
  /\ UNCHANGED workerVars

\* A page load in a browser with or without service workers.
InitPage ==
  /\ InitWorker
  /\ page \in { Page(supported, sections, NavLinks, CHOOSE f \in Forms : TRUE) :
                  supported \in BOOLEAN, sections \in Layouts }

NextPage ==
  \/ PageRegister
  \/ PageScript
  \/ \E ok \in BOOLEAN : RegistrationSettled(ok)
  \/ ToggleClick
  \/ CloseClick
  \/ \E n \in DOMAIN page.links : LinkClick(n)
  \/ \E y \in ScrollYs : Scroll(y)

SpecPage == InitPage /\ [][NextPage]_vars

\* What the user types into a field.
Typed == { <<>>, <<"hi">> }

\* The user sets the value of the control i of the form, a field one can type
\* into.
Input(i, v) ==
  /\ page.pc = "ready"
  /\ page.form[i].type \in {"text", "email", "textarea"}
  /\ page.form[i].value # v
  /\ page' = [page EXCEPT !.form[i].value = v]
  /\ UNCHANGED workerVars

\* A control the loop of contact skips by continue.
MutSkipped(control) == control.type = "submit"

Skipped(control) == control.type # "text" /\ control.type # "textarea"

\* The for loop of contact from the control i on: message with one line
\* added for each control that is not skipped.
RECURSIVE Message(_, _, _)
Message(target, i, message) ==
  IF ~(i <= Len(target)) THEN message
  ELSE IF Skipped(target[i])
       THEN Message(target, i + 1, message)
       ELSE Message(target, i + 1,
                    message \o <<target[i].name, ": ">> \o target[i].value
                            \o <<"\r\n">>)

\* target.elements[name]: the first control of that name.
NamedItem(target, name) ==
  CHOOSE i \in DOMAIN target :
    /\ target[i].name = name
    /\ \A j \in DOMAIN target : target[j].name = name => i <= j

\* form.submit(): the form is sent with the values its controls have now;
\* no submit event is dispatched.
Submit(p) ==
  [p EXCEPT !.submitted = @ + 1,
            !.sent = p.form[NamedItem(p.form, "body")].value]

\* A submit event of the form: contact runs to its end.
Contact ==
  /\ page.pc = "ready"
  /\ page.handled < MaxSubmits
  /\ LET target == page.form
         message == Message(target, 1, <<>>)
     IN page' = Submit([page EXCEPT
                          !.handled = @ + 1,
                          !.prevented = @ + 1,
                          !.form[NamedItem(target, "body")].value = message])
  /\ UNCHANGED workerVars

\* A page load with one of the contact forms.
InitForm ==
  /\ InitWorker
  /\ page \in { Page(supported, CHOOSE l \in Layouts : TRUE, NavLinks, form) :
                  supported \in BOOLEAN, form \in Forms }

NextForm ==
  \/ PageRegister
  \/ PageScript
  \/ \E ok \in BOOLEAN : RegistrationSettled(ok)
  \/ \E i \in DOMAIN page.form : \E v \in Typed : Input(i, v)
  \/ Contact

SpecForm == InitForm /\ [][NextForm]_vars

\* The event whose network fetch may hang: the first one dispatched.
Hung == CHOOSE e \in Events : \A f \in Events : e <= f

\* The requests of the pages that overlap a hung fetch: a manifest URL of the
\* site, a site URL outside the manifest and a URL of another origin.
HungRequests == {IndexURL, ExtraURL, FontURL}

NextHung ==
  \/ Handlers
  \/ \E e \in Events : \E url \in HungRequests : FetchEvent(e, url)

\* Overlapping fetch events where every cache operation completes and the
\* network answers or fails every fetch except, possibly, the one of event
\* Hung: every promise chain is run by the host as soon as the operation it
\* waits for has completed.
SpecHung ==
  /\ Init
  /\ [][NextHung]_vars
  /\ \A e \in Events :
       /\ WF_vars(OpenResolved(e))
       /\ WF_vars(MatchResolved(e))
  /\ \A e \in Events \ {Hung} :
       WF_vars((\E status \in Statuses : NetResolved(e, status)) \/ NetFailed(e))

(***************************************************************************)
(* Properties                                                              *)
(***************************************************************************)
\* Worker w has been installed and has not been replaced.
Live(w) == swState[w] \in {"installed", "activating", "activated"}

\* Every manifest URL has an entry in the store of worker w.
Precached(w) ==
  /\ staticCacheName(w) \in DOMAIN caches
  /\ AssetURLs \subseteq DOMAIN caches[staticCacheName(w)]

\* C1: once the promise install gave to waitUntil has resolved, every URL of
\* the asset manifest has an entry in the store named by the version string.
C1_InstallResolvedPrecached ==
  \A w \in Workers : (installSignal[w] = "resolved" /\ Live(w)) => Precached(w)

\* No version newer than w has created its store yet.
Newest(w) == \A v \in Workers : v > w => swState[v] \in {"parsed", "installing"}

\* C2: once the promise activate gave to waitUntil has resolved, exactly one
\* store remains and its name is the current version name, whatever stores
\* existed before (until a newer version creates its own store).
C2_ActivationLeavesOneStore ==
  \A w \in Workers :
    (activateSignal[w] = "resolved" /\ swState[w] = "activated" /\ Newest(w))
      => DOMAIN caches = {staticCacheName(w)}

\* C2 witness: the second version has activated, after the stores of the
\* first version and of the legacy generation existed.
C2_Witness ==
  /\ activateSignal[2] = "resolved"
  /\ swState[2] = "activated"
  /\ DOMAIN caches = {staticCacheName(2)}

\* C3 as claimed: a fetch event for a same-origin URL that has an entry in the
\* current store when the event is dispatched is answered from the store and
\* makes no network call.
C3_CacheFirstSameOrigin ==
  \A e \in Events :
    (events[e].cached /\ SameOrigin(events[e].url)) =>
      /\ events[e].netCalls = 0
      /\ events[e].pc = "done" => events[e].result = "cache"

\* C3 as amended: a fetch event for a URL that contains the site prefix and
\* has an entry in the current store is answered with the stored response and
\* makes no network call, whether the entry is there at dispatch or is found
\* by the lookup.
C3_CacheFirst ==
  \A e \in Events :
    /\ (events[e].cached /\ Includes(events[e].url, SitePrefix)) =>
         /\ events[e].netCalls = 0
         /\ events[e].pc = "done" =>
              events[e].result = "cache" /\ events[e].found # NoResponse
    /\ events[e].found # NoResponse =>
         /\ events[e].pc = "done"
         /\ events[e].result = "cache"
         /\ events[e].response = events[e].found
         /\ events[e].netCalls = 0

\* C3 witness: an event for the index page has been answered from the store.
C3_Witness ==
  \E e \in Events :
    /\ events[e].url = IndexURL
    /\ events[e].cached
    /\ events[e].found = Response(IndexURL, 200)
    /\ events[e].result = "cache"

\* C4: once a fetch event that missed has been answered with a successful
\* network response, every later fetch event for the same URL is served from
\* the store without a network call.
C4_StoreOnMiss ==
  \A e \in Events :
    events[e].prior =>
      /\ events[e].netCalls = 0
      /\ events[e].pc = "done" => events[e].result = "cache"

\* C5: after a version bump, install followed by activate leaves no store of
\* an older name and a store of the new name holding every manifest URL.
C5_GenerationTurnover ==
  \A w \in Workers :
    (w > 1 /\ activateSignal[w] = "resolved" /\ swState[w] = "activated") =>
      /\ \A v \in Workers : v < w => staticCacheName(v) \notin DOMAIN caches
      /\ LegacyName \notin DOMAIN caches
      /\ Precached(w)

\* C6: after install and activation, a fetch event for a same-origin URL of
\* the manifest is answered from the store with no network call.
C6_ManifestServedOffline ==
  \A e \in Events :
    (events[e].pc # "idle" /\ events[e].url \in AssetURLs /\ SameOrigin(events[e].url)) =>
      /\ events[e].netCalls = 0
      /\ events[e].pc = "done" => events[e].result = "cache"

\* C7: if the fetch of a manifest asset fails during install, the promise
\* install gave to waitUntil is rejected.
C7_InstallFailsOnAssetFailure ==
  \A w \in Workers : addAll[w].st = "rejected" => installSignal[w] = "rejected"

\* C8: an install whose fetch of some manifest URL failed has written no entry
\* to the store; before the worker serves any fetch event its store holds no
\* manifest URL at all.
C8_AllOrNothing ==
  \A w \in Workers :
    addAll[w].st = "rejected" =>
      /\ addAll[w].wrote = {}
      /\ swState[w] = "installed" =>
           /\ staticCacheName(w) \in DOMAIN caches
           /\ DOMAIN caches[staticCacheName(w)] \cap AssetURLs = {}

\* C8 witness: a manifest request failed after earlier ones had been answered.
C8_Witness ==
  \E w \in Workers :
    /\ addAll[w].st = "rejected"
    /\ addAll[w].partial
    /\ swState[w] = "installed"

\* C9: a fetch event whose URL does not contain the site prefix makes exactly
\* one network fetch, is answered with its outcome, and calls no cache
\* operation: it changes no store and no entry.
C9_PassThrough ==
  \A e \in Events :
    (events[e].pc # "idle" /\ ~Includes(events[e].url, SitePrefix)) =>
      /\ events[e].netCalls = 1
      /\ events[e].cacheOps = 0
      /\ events[e].handle = NoHandle
      /\ events[e].put = "none"
      /\ ~events[e].wrote
      /\ events[e].pc = "done" =>
           \/ events[e].result = "failed" /\ events[e].netError
           \/ /\ events[e].result = "network"
              /\ events[e].response.url = events[e].url

\* C9 witness: an event for the cross-origin font stylesheet has been answered
\* by the network.
C9_Witness ==
  \E e \in Events :
    /\ events[e].url = FontURL
    /\ events[e].pc = "done"
    /\ events[e].result = "network"

\* C10: when the network fetch of a fetch event fails, the page gets a failed
\* request with no response substituted, and the event has written nothing to
\* the cache.
C10_NetworkFailurePropagates ==
  \A e \in Events :
    events[e].netError =>
      /\ events[e].pc = "done"
      /\ events[e].result = "failed"
      /\ events[e].response = NoResponse
      /\ events[e].put = "none"
      /\ ~events[e].wrote

\* C10 witness: the network fetch of an event failed after its lookup had
\* missed.
C10_Witness ==
  \E e \in Events :
    /\ events[e].netError
    /\ events[e].url = ExtraURL
    /\ events[e].found = NoResponse
    /\ events[e].cacheOps = 2

\* C11: a fetch event makes at most one network fetch, none when the lookup
\* finds an entry, and a failed fetch is not tried again; the addAll call of an
\* install requests each manifest URL at most once.
C11_NoRetries ==
  /\ \A e \in Events :
       /\ events[e].netCalls <= 1
       /\ events[e].result = "cache" => events[e].netCalls = 0
       /\ events[e].netError => events[e].pc = "done" /\ events[e].netCalls = 1
  /\ \A w \in Workers :
       \A i, j \in DOMAIN addAll[w].requested :
         addAll[w].requested[i] = addAll[w].requested[j] => i = j

\* C11 witness: the fetch of an event has failed after a miss, and the addAll
\* call of its worker has been rejected.
C11_Witness ==
  \E e \in Events :
    /\ events[e].netError
    /\ events[e].handle # NoHandle
    /\ events[e].netCalls = 1
    /\ addAll[events[e].worker].st = "rejected"
    /\ Len(addAll[events[e].worker].requested) = Len(assets)

C13_SignalCoversWork ==
  /\ \A w \in Workers :
       /\ installSignal[w] = "resolved" => addAll[w].st # "pending"
       /\ activateSignal[w] = "resolved" => deleting[w] = {}
  /\ \A e \in Events : events[e].pc = "done" => events[e].put # "pending"

C15_OnlyVersionBumpInvalidates ==
  [][\A n \in DOMAIN caches :
       IF n \in DOMAIN caches'
       THEN DOMAIN caches[n] \subseteq DOMAIN caches'[n]
       ELSE \E w \in Workers :
              /\ swState[w] = "activating"
              /\ n # staticCacheName(w)
              /\ n \in deleting[w]]_vars

\* C15 witness: the store of the second version holds the manifest entries and
\* an entry written by a fetch miss, after further fetch events, and the store
\* of the first version has been deleted by the activation of the second.
C15_Witness ==
  /\ MaxVersions >= 2
  /\ swState[2] = "activated"
  /\ staticCacheName(1) \notin DOMAIN caches
  /\ staticCacheName(2) \in DOMAIN caches
  /\ AssetURLs \cup {ExtraURL} \subseteq DOMAIN caches[staticCacheName(2)]
  /\ \E e \in Events : events[e].pc = "done" /\ events[e].result = "cache"

\* C16: an event whose network fetch is pending has no response, and every
\* event other than the one whose fetch may hang for ever gets its answer or
\* its failure.
C16_HungFetchBlocksOnlyItself ==
  /\ [](\A e \in Events :
          events[e].pc = "net"
            => events[e].result = "none" /\ events[e].response = NoResponse)
  /\ \A f \in Events \ {Hung} :
       (events[f].pc \in {"open", "match", "net"})
         ~> (events[f].pc \in {"done", "idle"})

\* C16 witness: the fetch of event Hung is pending and another event has been
\* answered from the cache.
C16_Witness ==
  /\ events[Hung].pc = "net"
  /\ \E f \in Events \ {Hung} :
       /\ events[f].pc = "done"
       /\ events[f].result = "cache"
       /\ events[f].cached

\* C17: whatever the interleaving of the fetch events in flight, the response
\* an event is answered with is a response to the URL of its own request: the
\* one its lookup found under that URL, or the one the network gave to its own
\* fetch; and every store entry holds a response to the URL it is stored under.
C17_OwnResponse ==
  /\ \A e \in Events :
       /\ events[e].result = "cache"
            => /\ events[e].response = events[e].found
               /\ events[e].response # NoResponse
               /\ events[e].response.url = events[e].url
       /\ events[e].result = "network"
            => /\ events[e].response # NoResponse
               /\ events[e].response.url = events[e].url
  /\ \A n \in DOMAIN caches : \A u \in DOMAIN caches[n] : caches[n][u].url = u

\* C17 witness: two events for different URLs are in flight at once, one
\* answered by its lookup and one by the network.
C17_Witness ==
  \E e, f \in Events :
    /\ events[e].url # events[f].url
    /\ events[e].pc = "done" /\ events[e].result = "cache"
    /\ events[f].pc = "done" /\ events[f].result = "network"
    /\ events[f].put = "pending"

\* C18: the script calls register at most once, only where the browser has
\* navigator.serviceWorker, and with the fixed path; the script is never ended
\* by the registration; the outcome leaves one log line and nothing else: after
\* a failure no second call is made and the page is ready.
C18_RegistrationOnlyLogged ==
  /\ page.regCalls <= 1
  /\ page.regCalls = 1 <=> (page.supported /\ page.pc # "start")
  /\ page.regCalls = 1 => page.regPath = ScriptPath
  /\ page.pc # "aborted"
  /\ Len(page.log) <= 1
  /\ page.reg = "none" <=> page.regCalls = 0
  /\ page.reg = "pending" => page.log = <<>>
  /\ page.reg = "fulfilled"
       => page.log = <<"service worker registered">> /\ page.pc = "ready"
  /\ page.reg = "rejected"
       => page.log = <<"service worker not registered">> /\ page.pc = "ready"

\* C18 witness: the registration has failed, and the listeners the rest of the
\* script attached have since opened the menu and marked a link.
C18_Witness ==
  /\ page.reg = "rejected"
  /\ page.regCalls = 1
  /\ page.show
  /\ page.active # {}

\* The stores of the generations before worker w.
Older(w) == {LegacyName} \cup { staticCacheName(v) : v \in 1..(w - 1) }

\* C19: once a deletion of the sweep of worker w has been rejected, the
\* activate signal of w is rejected, not resolved; the rejected deletion is
\* not started again; and every other store of an older generation has been
\* deleted or has its deletion pending.
C19_DeleteFailureUnhandled ==
  \A w \in Workers :
    deleteFailed[w] # {}
      => /\ activateSignal[w] = "rejected"
         /\ deleteFailed[w] \cap deleting[w] = {}
         /\ (DOMAIN caches) \cap Older(w) \subseteq deleting[w] \cup deleteFailed[w]

\* C19 witness: the sweep of the second version found two stale stores; the
\* deletion of one has been rejected, the worker is activated with a rejected
\* signal, and the deletion of the other is still pending.
C19_Witness ==
  /\ MaxVersions >= 2
  /\ deleteFailed[2] = {staticCacheName(1)}
  /\ deleting[2] = {LegacyName}
  /\ {LegacyName, staticCacheName(1)} \subseteq DOMAIN caches
  /\ activateSignal[2] = "rejected"
  /\ swState[2] = "activated"

\* C20: an event whose URL does not start with the origin and directory of
\* the site makes no cache call and writes nothing, and no store of a worker
\* holds an entry for a URL that neither starts so nor is in the manifest.
C20_CachePathOnlyForSite ==
  LET StartsWithSite(url) ==
        /\ Len(url) >= Len(ScopeDir)
        /\ SubSeq(url, 1, Len(ScopeDir)) = ScopeDir
  IN /\ \A e \in Events :
          (events[e].pc # "idle" /\ ~StartsWithSite(events[e].url))
            => /\ events[e].cacheOps = 0
               /\ events[e].handle = NoHandle
               /\ events[e].put = "none"
               /\ events[e].result # "cache"
     /\ \A n \in DOMAIN caches : \A u \in DOMAIN caches[n] :
          StartsWithSite(u) \/ u \in AssetURLs

\* C21: a step of the activate handler of worker w (caches.keys resolving, or
\* one of its deletions completing) leaves the store named staticCacheName(w)
\* in place with every entry as it was; the deletions it starts are those of
\* all the other stores, and a deletion removes one of those stores whole.
C21_ActivateFrame ==
  [][\A w \in Workers :
       deleting'[w] # deleting[w]
         => /\ staticCacheName(w) \notin deleting'[w]
            /\ staticCacheName(w) \in DOMAIN caches
                 => /\ staticCacheName(w) \in DOMAIN caches'
                    /\ caches'[staticCacheName(w)] = caches[staticCacheName(w)]
            /\ deleting[w] = {}
                 => /\ deleting'[w] = (DOMAIN caches) \ {staticCacheName(w)}
                    /\ caches' = caches
            /\ deleting[w] # {}
                 => \E key \in deleting[w] :
                      /\ deleting'[w] = deleting[w] \ {key}
                      /\ caches' = Deleted(caches, key)]_vars

\* C21 witness: the sweep of the second version has deleted the store of the
\* first, and the store of the second still holds the manifest entries.
C21_Witness ==
  /\ MaxVersions >= 2
  /\ activatePc[2] = "deleting"
  /\ deleting[2] = {}
  /\ staticCacheName(1) \notin DOMAIN caches
  /\ Precached(2)

\* C22: a step of the install handler of worker w (caches.open resolving, or
\* its cache.addAll settling) creates no store but the one named
\* staticCacheName(w) and leaves every other store in place with every entry
\* as it was; and while w is installing or waiting, the store of the version
\* before it exists and that version is the activated one.
C22_InstallFrame ==
  /\ [](\A w \in Workers :
          (w > 1 /\ swState[w] \in {"installing", "installed"})
            => /\ swState[w - 1] = "activated"
               /\ staticCacheName(w - 1) \in DOMAIN caches)
  /\ [][\A w \in Workers :
          (addAll'[w].st # addAll[w].st
             /\ addAll'[w].st \in {"pending", "rejected", "committed"})
            => /\ addAll'[w].st = "pending" => staticCacheName(w) \in DOMAIN caches'
               /\ \A n \in (DOMAIN caches) \cup (DOMAIN caches') :
                    n # staticCacheName(w)
                      => /\ n \in DOMAIN caches
                         /\ n \in DOMAIN caches'
                         /\ caches'[n] = caches[n]]_vars

\* C22 witness: the second version is installed and its manifest is stored,
\* while the first version is activated, its store holds an entry written by a
\* fetch miss, and it has answered an event from that store.
C22_Witness ==
  /\ MaxVersions >= 2
  /\ swState[2] = "installed"
  /\ addAll[2].st = "committed"
  /\ swState[1] = "activated"
  /\ staticCacheName(1) \in DOMAIN caches
  /\ ExtraURL \in DOMAIN caches[staticCacheName(1)]
  /\ \E e \in Events :
       events[e].worker = 1 /\ events[e].pc = "done" /\ events[e].result = "cache"

\* C23: an event that missed has made its own network call, whatever other
\* events for the same URL are in flight; and when the cache.put of an event
\* completes on a store that exists, the store holds for the URL of the event
\* the network response of that event, in place of any earlier entry, and
\* every other entry is as it was.
C23_OverlappingMisses ==
  /\ [](\A e \in Events :
          (events[e].handle # NoHandle /\ events[e].result \in {"network", "failed"})
            => events[e].netCalls = 1 /\ events[e].found = NoResponse)
  /\ [][\A e \in Events :
          (events[e].put = "pending" /\ events'[e].put # "pending"
             /\ events[e].handle \in DOMAIN caches)
            => LET h == events[e].handle
                   u == events[e].url
               IN /\ DOMAIN caches' = DOMAIN caches
                  /\ DOMAIN caches'[h] = (DOMAIN caches[h]) \cup {u}
                  /\ caches'[h][u] = events[e].response
                  /\ \A v \in (DOMAIN caches[h]) \ {u} : caches'[h][v] = caches[h][v]]_vars

\* C23 witness: two events for the same URL outside the manifest have both
\* missed and each has its network response, one ok and one not, and the
\* cache.put of both is pending.
C23_Witness ==
  \E e, f \in Events :
    /\ e # f
    /\ events[e].url = ExtraURL /\ events[f].url = ExtraURL
    /\ events[e].netCalls = 1 /\ events[f].netCalls = 1
    /\ events[e].put = "pending" /\ events[f].put = "pending"
    /\ events[e].handle = events[f].handle
    /\ events[e].response.status = 200 /\ events[f].response.status = 404

\* C24 as stated: once the activate signal of a version has resolved, no step
\* creates a store with a name other than the name of that version.
C24_NoOtherStoreCreated ==
  [][\A w \in Workers :
       activateSignal[w] = "resolved"
         => (DOMAIN caches') \ (DOMAIN caches) \subseteq {staticCacheName(w)}]_vars

\* C24: once the activate signal of a version has resolved, the only stores
\* created are those of that version or of a newer one: no store of an older
\* name comes back, also when the cache.put of an event of the replaced
\* worker completes after the sweep.
C24_NoOldStoreRecreated ==
  [][\A n \in (DOMAIN caches') \ (DOMAIN caches) :
       \E v \in Workers :
         /\ n = staticCacheName(v)
         /\ \A w \in Workers : activateSignal[w] = "resolved" => v >= w]_vars

\* C24 witness: the second version is activated, the store of the first is
\* gone, and the cache.put of an event the first worker answered is still
\* pending on the deleted store.
C24_Witness ==
  /\ MaxVersions >= 2
  /\ swState[2] = "activated"
  /\ staticCacheName(1) \notin DOMAIN caches
  /\ \E e \in Events :
       /\ events[e].worker = 1
       /\ events[e].put = "pending"
       /\ events[e].handle = Orphaned

\* C25: the cache.put of a miss writes the network response whatever its
\* status; an entry that is not ok stays as it is for as long as its store
\* exists; and an event dispatched while the store of its worker holds an
\* entry for its URL makes no network call and is answered from the store.
C25_ErrorResponseSticks ==
  /\ [](\A e \in Events :
          (events[e].cached /\ events[e].handle # NoHandle /\ events[e].pc = "done")
            => events[e].result = "cache" /\ events[e].netCalls = 0)
  /\ [][/\ \A e \in Events :
            (events[e].put = "pending" /\ events'[e].put # "pending"
               /\ events[e].handle \in DOMAIN caches)
              => caches'[events[e].handle][events[e].url] = events[e].response
        /\ \A n \in (DOMAIN caches) \cap (DOMAIN caches') :
             \A u \in DOMAIN caches[n] :
               ~Ok(caches[n][u]) => caches'[n][u] = caches[n][u]]_vars

\* C26: an event answered from the store has made two cache calls, open and
\* match, and no cache.put and no network call; its open created no store,
\* and the step that answers it leaves every store and entry as it was.
C26_HitWritesNothing ==
  /\ [](\A e \in Events :
          events[e].result = "cache"
            => /\ events[e].put = "none"
               /\ ~events[e].wrote
               /\ events[e].cacheOps = 2
               /\ events[e].netCalls = 0)
  /\ [][\A e \in Events :
          (events'[e].result = "cache" /\ events[e].result # "cache")
            => caches' = caches]_vars

\* C26 witness: an event has been answered from the store with a stored
\* response that is not ok, and the entry is still that response.
C26_Witness ==
  \E e \in Events :
    /\ events[e].pc = "done"
    /\ events[e].result = "cache"
    /\ ~Ok(events[e].response)
    /\ events[e].handle \in DOMAIN caches
    /\ caches[events[e].handle][events[e].url] = events[e].response

\* C27: an event whose cache.put was rejected keeps the network response it
\* was answered with; the step in which the put is rejected changes nothing
\* of the event but the outcome of the put, and leaves every store and entry
\* as it was, so the put has added no entry for the URL.
C27_PutFailureIgnored ==
  /\ [](\A e \in Events :
          events[e].put = "failed"
            => /\ events[e].pc = "done"
               /\ events[e].result = "network"
               /\ events[e].response # NoResponse
               /\ events[e].response.url = events[e].url)
  /\ [][\A e \in Events :
          (events[e].put = "pending" /\ events'[e].put = "failed")
            => /\ caches' = caches
               /\ events'[e].pc = events[e].pc
               /\ events'[e].result = events[e].result
               /\ events'[e].response = events[e].response]_vars

\* C27 witness: an event that missed was answered with the network response,
\* its cache.put was rejected, and the store holds no entry for its URL.
C27_Witness ==
  \E e \in Events :
    /\ events[e].put = "failed"
    /\ events[e].result = "network"
    /\ events[e].handle \in DOMAIN caches
    /\ events[e].url \notin DOMAIN caches[events[e].handle]

\* C28: every dispatched fetch event, on the cache path or not, whatever its
\* stage and outcome, has had respondWith called exactly once, in the step
\* that dispatched it.
C28_RespondWithOnce ==
  /\ [](\A e \in Events : events[e].pc # "idle" => events[e].responded = 1)
  /\ [][\A e \in Events :
          /\ (events[e].pc = "idle" /\ events'[e].pc # "idle")
               => events'[e].responded = 1
          /\ (events[e].pc # "idle" /\ events'[e].pc # "idle")
               => events'[e].responded = events[e].responded]_vars

\* C28 witness: an event for a URL without the site prefix has been answered
\* by the listener with a fetch that failed.
C28_Witness ==
  \E e \in Events :
    /\ ~Includes(events[e].url, SitePrefix)
    /\ events[e].pc = "done"
    /\ events[e].result = "failed"
    /\ events[e].responded = 1

\* C29: an event whose caches.open created the store and whose lookup finds
\* the store still empty goes to the network, once; a store of an installed version that appears again is
\* created empty, by the open of a fetch event; and while the cache.addAll of
\* that version has no handle on the store, the store changes only by the
\* cache.put of a fetch event, which writes the entry of the URL of the event.
C29_StoreAbsentAtFetch ==
  /\ [][\A e \in Events :
          (events[e].wrote /\ events[e].pc = "match" /\ events'[e].pc # "match"
             /\ StoreOf(events[e].handle) = EmptyStore)
            => /\ events'[e].pc = "net"
               /\ events'[e].netCalls = 1
               /\ events'[e].found = NoResponse]_vars
  /\ [][\A w \in Workers :
          LET n == staticCacheName(w)
          IN installSignal[w] = "resolved"
               => /\ (n \notin DOMAIN caches /\ n \in DOMAIN caches')
                       => /\ caches'[n] = EmptyStore
                          /\ \E e \in Events :
                               /\ events[e].pc = "open"
                               /\ events[e].worker = w
                               /\ events'[e].wrote
                  /\ (n \in DOMAIN caches /\ n \in DOMAIN caches'
                        /\ addAll[w].handle # n /\ caches'[n] # caches[n])
                       => \E e \in Events :
                            /\ events[e].put = "pending"
                            /\ events'[e].put # "pending"
                            /\ events[e].handle = n
                            /\ DOMAIN caches'[n] = (DOMAIN caches[n]) \cup {events[e].url}
                            /\ \A u \in DOMAIN caches[n] :
                                 u # events[e].url => caches'[n][u] = caches[n][u]]_vars

\* C29 witness: the store of the activated version, once filled with the
\* manifest, was removed from outside and created again by a fetch event; it
\* now holds the URL of that event and nothing of the manifest.
C29_Witness ==
  \E w \in Workers :
    /\ swState[w] = "activated"
    /\ addAll[w].st = "committed"
    /\ addAll[w].handle = Orphaned
    /\ staticCacheName(w) \in DOMAIN caches
    /\ DOMAIN caches[staticCacheName(w)] = {ExtraURL}

\* C30: once a run of the activate handler of a worker has resolved, a further
\* run straight after it starts no deletion and leaves the set of stores and
\* every entry as they were.
C30_ActivationIdempotent ==
  /\ [](\A w \in Workers : sweeps[w] >= 1 => deleting[w] = {})
  /\ [][(\E w \in Workers : sweeps[w] >= 1) => caches' = caches]_vars

\* C30 witness: the handler has run twice on a storage from which the first
\* run had stores to delete, and the store of the worker is left with its
\* entries.
C30_Witness ==
  \E w \in Workers :
    /\ sweeps[w] = 2
    /\ activatePc[w] = "done"
    /\ DOMAIN caches = {staticCacheName(w)}
    /\ caches[staticCacheName(w)] = AddAllStored(EmptyStore)

\* C31: every fetch event for the font stylesheet URL of the manifest makes one
\* network call and no cache call, and is never answered from a store, also
\* when the store of its worker holds an entry for that URL.
C31_FontNeverFromCache ==
  \A e \in Events :
    (events[e].pc # "idle" /\ events[e].url = Resolve(assets[Len(assets)]))
      => /\ events[e].netCalls = 1
         /\ events[e].cacheOps = 0
         /\ events[e].handle = NoHandle
         /\ events[e].found = NoResponse
         /\ events[e].result # "cache"
         /\ events[e].put = "none"

\* C31 witness: the store of the activated worker holds the font stylesheet,
\* written by cache.addAll, and an event for it, dispatched when the entry was
\* there, has been answered by the network.
C31_Witness ==
  \E e \in Events :
    /\ events[e].url = FontURL
    /\ events[e].cached
    /\ events[e].pc = "done"
    /\ events[e].result = "network"
    /\ Precached(events[e].worker)

\* The lines the body field is to hold for the controls of a form: one line
\* for each text or textarea control, in form order.
RECURSIVE FormLines(_)
FormLines(controls) ==
  IF controls = <<>> THEN <<>>
  ELSE LET c == Head(controls)
       IN (IF c.type \in {"text", "textarea"}
           THEN <<c.name, ": ">> \o c.value \o <<"\r\n">>
           ELSE <<>>) \o FormLines(Tail(controls))

\* C32: a submit event of the contact form makes the handler run once: it
\* prevents the default submission once, the hidden field body then holds one
\* line "name: value\r\n" for each text or textarea control in form order
\* and nothing for any other control, no other control changes, and the form
\* is submitted programmatically once, carrying that body; the programmatic
\* submit does not run the handler again.
C32_ContactSubmitsOnce ==
  /\ [](/\ page.submitted = page.handled
        /\ page.prevented = page.handled)
  /\ [][page'.handled # page.handled =>
          LET body == NamedItem(page.form, "body")
          IN /\ page'.handled = page.handled + 1
             /\ page'.prevented = page.prevented + 1
             /\ page'.submitted = page.submitted + 1
             /\ page'.form[body].value = FormLines(page.form)
             /\ page'.sent = FormLines(page.form)
             /\ \A i \in DOMAIN page.form :
                  i # body => page'.form[i] = page.form[i]
             /\ DOMAIN page'.form = DOMAIN page.form]_vars

\* The second submission of a form that has an e-mail field and a textarea,
\* both filled in.
C32_Witness ==
  /\ page.handled = 2
  /\ page.submitted = 2
  /\ page.sent # <<>>
  /\ page.sent = page.form[NamedItem(page.form, "body")].value
  /\ \E i \in DOMAIN page.form :
       page.form[i].type = "email" /\ page.form[i].value # <<>>
  /\ \E i \in DOMAIN page.form :
       page.form[i].type = "textarea" /\ page.form[i].value # <<>>

\* C33: whatever clicks came before, after a click on the toggle the menu
\* has the class show exactly if it did not have it before the click, and
\* after a click on the close button or on a navigation link it does not
\* have the class, whether it had it before the click or not.
C33_MenuClicks ==
  /\ page.click.kind = "toggle" => page.show = ~page.click.before
  /\ page.click.kind \in {"close", "link"} => ~page.show

\* A click on a navigation link has closed a menu that was open.
C33_Witness ==
  /\ page.click = [kind |-> "link", before |-> TRUE]
  /\ ~page.show

\* The sections k and l of the page share no scroll offset between their
\* limits.
Apart(sections, k, l) ==
  \/ sections[k].offsetTop + sections[k].offsetHeight <= sections[l].offsetTop
  \/ sections[l].offsetTop + sections[l].offsetHeight <= sections[k].offsetTop

\* C34: once the scroll listener has run, the link to a section (the link
\* whose href is "#" and the id of the section) has the class active exactly
\* if the scroll offset y is above top - 50 and at most top - 50 + height of
\* that section; where no two sections overlap, at most one link is active.
C34_ScrollSpy ==
  page.scrolled =>
    /\ \A k \in DOMAIN page.sections : \A n \in DOMAIN page.links :
         page.links[n] = <<"#", page.sections[k].id>> =>
           (n \in page.active <=>
              /\ page.sections[k].offsetTop - 50 < page.scrollY
              /\ page.scrollY <= page.sections[k].offsetTop - 50
                                   + page.sections[k].offsetHeight)
    /\ (\A k, l \in DOMAIN page.sections :
          k # l => Apart(page.sections, k, l))
         => Cardinality(page.active) <= 1

\* The page is scrolled to the lower limit of the second section, where
\* sections follow each other: the link of the first section is active, the
\* link of the second is not.
C34_Witness ==
  /\ page.scrolled
  /\ \A k, l \in DOMAIN page.sections : k # l => Apart(page.sections, k, l)
  /\ page.scrollY = page.sections[2].offsetTop - 50
  /\ page.active = {1}

====
